---------------------------- MODULE Spec2Model ----------------------------
(***************************************************************************)
(* Data-preparation utilities of BrLP: the timestamp extractor and the     *)
(* subject pairing engine (scripts/prepare/prepare_csv.py), the file       *)
(* candidate matcher and the default dataset builder                       *)
(* (scripts/prepare/convert_to_dataset_csv.py) and the manifest-merge      *)
(* builder (scripts/prepare/prepare_csv_build.py).                         *)
(*                                                                         *)
(* Text is a sequence of one-character strings.  Each script is a          *)
(* single-threaded batch run; `prog` says which script a behaviour runs,   *)
(* and the variables of the other scripts stay at their initial values.    *)
(***************************************************************************)
EXTENDS Integers, Sequences, FiniteSets, TLC

VARIABLES
    prog,        \* the script this behaviour runs
    texts,       \* parse_timestamp_from_texts: the *texts argument
    ntok,        \* tokens put into texts so far
    ts_pc,       \* "input" while the arguments are assembled, "done" after the call
    ts_result,   \* parse_timestamp_from_texts: the returned datetime, or None
    rows,        \* prepare_csv.main: the dataset rows handed to build_B
    cfg,         \* build_B: pairing, min_days, min_years, same_split, max_pairs_per_subject, subject_group
    b_pc,        \* "input" while dataset.csv is read, "done" after build_B
    b_rows,      \* build_B: the rows written to B.csv
    fs,          \* convert_to_dataset_csv: the files under preprocessed_dir
    subj2warped, \* convert_to_dataset_csv.main: directory name -> warped files, in dict order
    c_pc,        \* "scan" before the index is built, "rows" in the row loop, "done" at the end
    cur,         \* convert_to_dataset_csv.main: the normalized fields of the row in hand
    cands,       \* convert_to_dataset_csv.main: the candidate pool of the row in hand
    warped,      \* convert_to_dataset_csv.main: what choose_best returned for it
    idx,         \* convert_to_dataset_csv.main: rows processed so far
    out_rows,    \* convert_to_dataset_csv.main: rows collected for dataset.csv
    skipped,     \* convert_to_dataset_csv.main: rows without a match
    matched,     \* convert_to_dataset_csv.main: rows with a match
    adni_rows,   \* prepare_csv_build.build_dataset: the rows of the ADNI sheet
    pre_dirs,    \* prepare_csv_build.build_dataset: names of the directories of pre_dir that hold a warped image
    idx_uid,     \* build_dataset: stripped image id -> ADNI row
    idx_subj,    \* build_dataset: subject id -> ADNI rows, sorted by date
    path_map,    \* build_dataset: image id -> image path
    m_pc,        \* "read" before the indexes are built, "rows" in the manifest loop, "done" at the end
    mr,          \* build_dataset: the manifest row in hand
    ad,          \* build_dataset: the ADNI row find_adni gave for it, or None
    m_n,         \* build_dataset: manifest rows processed so far
    m_out,       \* build_dataset: out_rows
    v,           \* normalize_sex: its argument
    s_n,         \* pieces the argument is put together from so far
    s_pc,        \* "input" while the argument is typed, "once" and "twice" after the calls
    sex_raw,     \* build_dataset: sex_raw = normalize_sex(...)
    sex,         \* build_dataset: the sex code written to the row
    sex_again,   \* normalize_sex applied to sex_raw
    tool,        \* batch_dicom_to_nifti: "present", "missing" or "unrunnable": what running dcm2niix meets
    tree,        \* batch_dicom_to_nifti: the folders os.walk(DICOM_ROOT) yields, each the set of its file names
    d_pc,        \* "tree", "check", "walk", "done", "aborted" or "crashed"
    found,       \* __main__: what check_dcm2niix() returned
    walk_i,      \* batch_convert: folders of the walk visited so far
    calls,       \* folders convert_dicom_folder was called on
    started,     \* conversion subprocesses that were started
    headers,     \* prepare_csv_build.ColFinder: the headers of the sheet, in sheet order
    canon,       \* ColFinder.canon: canonical name -> header, in insertion order
    patterns,    \* ColFinder.find: its patterns, in priority order
    col,         \* ColFinder.find: the header it returned, or None
    f_pc         \* "sheet" while the headers are read, "finder" after __init__, "found" after find

tsVars   == <<texts, ntok, ts_pc, ts_result>>
pairVars == <<rows, cfg, b_pc, b_rows>>
convVars == <<fs, subj2warped, c_pc, cur, cands, warped, idx, out_rows, skipped, matched>>
mergeVars == <<adni_rows, pre_dirs, idx_uid, idx_subj, path_map, m_pc, mr, ad, m_n, m_out>>
sexVars  == <<v, s_n, s_pc, sex_raw, sex, sex_again>>
dicomVars == <<tool, tree, d_pc, found, walk_i, calls, started>>
colsVars == <<headers, canon, patterns, col, f_pc>>
vars     == <<prog, tsVars, pairVars, convVars, mergeVars, sexVars, dicomVars, colsVars>>

\* what each script leaves alone
notTS    == <<pairVars, convVars, mergeVars, sexVars, dicomVars, colsVars>>
notPair  == <<tsVars, convVars, mergeVars, sexVars, dicomVars, colsVars>>
notConv  == <<tsVars, pairVars, mergeVars, sexVars, dicomVars, colsVars>>
notMerge == <<tsVars, pairVars, convVars, sexVars, dicomVars, colsVars>>
notSex   == <<tsVars, pairVars, convVars, mergeVars, dicomVars, colsVars>>
notCols == <<tsVars, pairVars, convVars, mergeVars, sexVars, dicomVars>>
notDicom == <<tsVars, pairVars, convVars, mergeVars, sexVars, colsVars>>

(***************************************************************************)
(* Bounds of the model.                                                    *)
(***************************************************************************)
MaxFrags  == 2      \* text fragments handed to one call of the extractor
MaxTokens == 3      \* tokens of digits/separators making up the fragments of one call
MaxRows   == 4      \* rows of dataset.csv in one pairing run
MaxCap    == 2      \* largest max_pairs_per_subject tried
MaxSrcRows == 2     \* rows of the source CSV in one run of the default builder
MaxAdniRows == 2    \* rows of the ADNI sheet in one run of the manifest-merge builder
MaxManRows == 2     \* rows of the manifest in one run of the manifest-merge builder
MaxSexTokens == 3   \* pieces an argument of normalize_sex is put together from
MaxFolders == 2     \* folders the walk of DICOM_ROOT yields
MaxHeaders == 3     \* headers of a sheet a ColFinder is made of

(***************************************************************************)
(* Characters and digits.                                                  *)
(***************************************************************************)
None == <<>>

DigitChars == <<"0", "1", "2", "3", "4", "5", "6", "7", "8", "9">>

IsDigit(c) == \E i \in 1..10 : DigitChars[i] = c

DigitVal(c) == (CHOOSE i \in 1..10 : DigitChars[i] = c) - 1

\* the w decimal digits of n, most significant first
RECURSIVE ToDigits(_, _)
ToDigits(n, w) ==
    IF w = 0 THEN <<>> ELSE Append(ToDigits(n \div 10, w - 1), DigitChars[(n % 10) + 1])

\* re character class [lo-hi] over digits
InClass(c, lo, hi) == IsDigit(c) /\ DigitVal(c) >= lo /\ DigitVal(c) <= hi

\* int() of the two / four digits of t that start at position p
Num2(t, p) == 10 * DigitVal(t[p]) + DigitVal(t[p + 1])
Num4(t, p) == 100 * Num2(t, p) + Num2(t, p + 2)

\* (?<!\d) at position p and (?!\d) after a match of n characters at p
NoDigitBefore(t, p) == p = 1 \/ ~IsDigit(t[p - 1])
NoDigitAfter(t, p, n) == p + n > Len(t) \/ ~IsDigit(t[p + n])

\* ([12][0-9]{3})([01][0-9])([0-3][0-9]) at position p
DateClasses(t, p) ==
    /\ InClass(t[p], 1, 2)
    /\ \A k \in 1..3 : IsDigit(t[p + k])
    /\ InClass(t[p + 4], 0, 1) /\ IsDigit(t[p + 5])
    /\ InClass(t[p + 6], 0, 3) /\ IsDigit(t[p + 7])

\* ([0-2][0-9])([0-5][0-9])([0-5][0-9]) at position p
TimeClasses(t, p) ==
    /\ InClass(t[p], 0, 2) /\ IsDigit(t[p + 1])
    /\ InClass(t[p + 2], 0, 5) /\ IsDigit(t[p + 3])
    /\ InClass(t[p + 4], 0, 5) /\ IsDigit(t[p + 5])

\* the regular expressions TS14, TS8, Y4 matching at position p of t
TS14At(t, p) ==
    /\ p + 13 <= Len(t)
    /\ NoDigitBefore(t, p)
    /\ DateClasses(t, p) /\ TimeClasses(t, p + 8)
    /\ NoDigitAfter(t, p, 14)

TS8_NoLookbehind(t, p) ==
    /\ p + 7 <= Len(t)
    /\ DateClasses(t, p)
    /\ NoDigitAfter(t, p, 8)

TS8At(t, p) ==
    /\ p + 7 <= Len(t)
    /\ NoDigitBefore(t, p)
    /\ DateClasses(t, p)
    /\ NoDigitAfter(t, p, 8)

Y4At(t, p) ==
    /\ p + 3 <= Len(t)
    /\ NoDigitBefore(t, p)
    /\ InClass(t[p], 1, 2)
    /\ \A k \in 1..3 : IsDigit(t[p + k])
    /\ NoDigitAfter(t, p, 4)

\* rx.search(t): the position of the leftmost match, 0 when there is none
Min(S) == CHOOSE x \in S : \A y \in S : x <= y
Max(S) == CHOOSE x \in S : \A y \in S : x >= y

TS14Search(t) ==
    LET M == {p \in 1..Len(t) : TS14At(t, p)} IN IF M = {} THEN 0 ELSE Min(M)

TS8Search(t) ==
    LET M == {p \in 1..Len(t) : TS8At(t, p)} IN IF M = {} THEN 0 ELSE Min(M)

Y4Search(t) ==
    LET M == {p \in 1..Len(t) : Y4At(t, p)} IN IF M = {} THEN 0 ELSE Min(M)

(***************************************************************************)
(* datetime.strptime on the digits a match captured.  A datetime is        *)
(* <<year, month, day, hour, minute, second>>; a ValueError is None.       *)
(***************************************************************************)
IsLeap(y) == (y % 4 = 0 /\ y % 100 # 0) \/ y % 400 = 0

DaysInMonth(y, m) ==
    IF m = 2 THEN (IF IsLeap(y) THEN 29 ELSE 28)
    ELSE IF m \in {4, 6, 9, 11} THEN 30 ELSE 31

ValidDate(y, m, d) == m >= 1 /\ m <= 12 /\ d >= 1 /\ d <= DaysInMonth(y, m)

\* datetime.strptime(raw, "%Y%m%d%H%M%S") for the 14 digits at p
Strptime14(t, p) ==
    LET y == Num4(t, p)      m == Num2(t, p + 4)   d == Num2(t, p + 6)
        hh == Num2(t, p + 8) mi == Num2(t, p + 10) ss == Num2(t, p + 12)
    IN IF ValidDate(y, m, d) /\ hh <= 23 /\ mi <= 59 /\ ss <= 59
       THEN <<y, m, d, hh, mi, ss>> ELSE None

\* datetime.strptime(raw, "%Y%m%d") for the 8 digits at p
Strptime8(t, p) ==
    LET y == Num4(t, p)  m == Num2(t, p + 4)  d == Num2(t, p + 6)
    IN IF ValidDate(y, m, d) THEN <<y, m, d, 0, 0, 0>> ELSE None

\* datetime.strptime(y + "0101000000", "%Y%m%d%H%M%S") for the 4 digits at p
StrptimeY4(t, p) == <<Num4(t, p), 1, 1, 0, 0, 0>>

(***************************************************************************)
(* parse_timestamp_from_texts: three passes over the fragments; a pass     *)
(* returns the first fragment whose leftmost match parses.                 *)
(***************************************************************************)
Parsed14(t) == IF TS14Search(t) = 0 THEN None ELSE Strptime14(t, TS14Search(t))
Parsed8(t)  == IF TS8Search(t) = 0 THEN None ELSE Strptime8(t, TS8Search(t))
ParsedY4(t) == IF Y4Search(t) = 0 THEN None ELSE StrptimeY4(t, Y4Search(t))

\* one "for t in texts" loop: empty fragments are skipped ("if not t: continue")
FirstParsed14(txs) ==
    LET I == {i \in 1..Len(txs) : txs[i] # <<>> /\ Parsed14(txs[i]) # None}
    IN IF I = {} THEN None ELSE Parsed14(txs[Min(I)])

FirstParsed8(txs) ==
    LET I == {i \in 1..Len(txs) : txs[i] # <<>> /\ Parsed8(txs[i]) # None}
    IN IF I = {} THEN None ELSE Parsed8(txs[Min(I)])

FirstParsedY4(txs) ==
    LET I == {i \in 1..Len(txs) : txs[i] # <<>> /\ ParsedY4(txs[i]) # None}
    IN IF I = {} THEN None ELSE ParsedY4(txs[Min(I)])

parse_timestamp_8_first(txs) ==
    IF FirstParsed8(txs) # None THEN FirstParsed8(txs)
    ELSE IF FirstParsed14(txs) # None THEN FirstParsed14(txs)
    ELSE FirstParsedY4(txs)

parse_timestamp_from_texts(txs) ==
    IF FirstParsed14(txs) # None THEN FirstParsed14(txs)
    ELSE IF FirstParsed8(txs) # None THEN FirstParsed8(txs)
    ELSE FirstParsedY4(txs)

(***************************************************************************)
(* Subject Pairing Engine: prepare_csv.build_B.                            *)
(*                                                                         *)
(* A dataset row is a record of the fields build_B reads (subject_id,      *)
(* image_uid, split, image_path); the six other columns of FIELDS10 are    *)
(* copied unread and are left out.  A timedelta is <<days, seconds>> with  *)
(* 0 <= seconds < 86400, as Python normalizes and compares it.             *)
(***************************************************************************)
SubjectIds == { <<"A">>, <<"A", "_", "1">> }

Splits == { <<"t">>, <<"v">> }

\* <<image_path, image_uid>>: no timestamp; a date in the path; a date in the path
\* and a date-time in the uid
RowTexts ==
    { << <<"/", "x">>, <<"I", "7">> >>,
      << <<"/">> \o ToDigits(20200101, 8) \o <<"/", "x">>, <<"I", "7">> >>,
      << <<"/">> \o ToDigits(20200101, 8) \o <<"/", "x">>,
         <<"I">> \o ToDigits(20180315, 8) \o ToDigits(120000, 6) >> }

RowValues ==
    { [subject_id |-> sid, image_uid |-> tx[2], split |-> sp, image_path |-> tx[1]] :
        sid \in SubjectIds, sp \in Splits, tx \in RowTexts }

\* rows for the grouping keys: no subject id, one that starts with an underscore,
\* a plain one
KeySubjectIds == { <<>>, <<"_", "1">>, <<"A">> }

KeyRowValues ==
    { [subject_id |-> sid, image_uid |-> tx[2], split |-> <<"t">>, image_path |-> tx[1]] :
        sid \in KeySubjectIds, tx \in RowTexts }

IsSpace(c) == c = " "

\* str.strip()
RECURSIVE LStrip(_)
LStrip(t) == IF t # <<>> /\ IsSpace(Head(t)) THEN LStrip(Tail(t)) ELSE t

RECURSIVE RStrip(_)
RStrip(t) == IF t # <<>> /\ IsSpace(t[Len(t)]) THEN RStrip(SubSeq(t, 1, Len(t) - 1)) ELSE t

Strip(t) == RStrip(LStrip(t))

\* s.split("_", 1)[0]
FirstToken(t) ==
    LET U == {p \in 1..Len(t) : t[p] = "_"}
    IN IF U = {} THEN t ELSE SubSeq(t, 1, Min(U) - 1)

subject_group_key_AlwaysFirstToken(subject_id, mode) ==
    LET s == Strip(subject_id)
    IN IF s = <<>> THEN <<>> ELSE FirstToken(s)

subject_group_key(subject_id, mode) ==
    LET s == Strip(subject_id)
    IN IF s = <<>> THEN <<>>
       ELSE IF mode = "exact" THEN s
       ELSE IF mode = "first_token" THEN FirstToken(s)
       ELSE s

\* date.toordinal(): days since 0001-01-01, counted from 1
DaysBeforeYear(y) == (y - 1) * 365 + (y - 1) \div 4 - (y - 1) \div 100 + (y - 1) \div 400

DaysBeforeMonth(y, m) ==
    <<0, 31, 59, 90, 120, 151, 181, 212, 243, 273, 304, 334>>[m]
        + (IF m > 2 /\ IsLeap(y) THEN 1 ELSE 0)

ToOrdinal(dt) == DaysBeforeYear(dt[1]) + DaysBeforeMonth(dt[1], dt[2]) + dt[3]

SecondOfDay(dt) == dt[4] * 3600 + dt[5] * 60 + dt[6]

\* datetime.__sub__: b - a as a normalized timedelta
DtSub(b, a) ==
    LET d  == ToOrdinal(b) - ToOrdinal(a)
        sc == SecondOfDay(b) - SecondOfDay(a)
    IN IF sc < 0 THEN <<d - 1, sc + 86400>> ELSE <<d, sc>>

\* timedelta.__lt__
TdLess(x, y) == x[1] < y[1] \/ (x[1] = y[1] /\ x[2] < y[2])

\* datetime.__le__: the fields <<year, month, day, hour, minute, second>> compared
\* in order
RECURSIVE DtLeq(_, _)
DtLeq(a, b) ==
    IF a = <<>> THEN TRUE
    ELSE Head(a) < Head(b) \/ (Head(a) = Head(b) /\ DtLeq(Tail(a), Tail(b)))

\* td_thresh = timedelta(days=float(min_days) + float(min_years)*365.2425), for whole
\* years: 365.2425 days are 31556952 seconds
SecondsPerYear == 31556952

td_thresh(c) ==
    LET sc == c.min_years * SecondsPerYear
    IN <<c.min_days + sc \div 86400, sc % 86400>>

\* "Enrich with parsed dt": a row is kept, with its _dt, only when a timestamp is found
RowDt(r) == parse_timestamp_from_texts(<<r.image_path, r.image_uid>>)

RowDtMemo == [r \in RowValues \cup KeyRowValues |-> RowDt(r)]

Enrich_DefaultDt(rs) ==
    [k \in 1..Len(rs) |->
        [row |-> rs[k], dt |-> IF RowDtMemo[rs[k]] = None THEN <<1970, 1, 1, 0, 0, 0>> ELSE RowDtMemo[rs[k]]]]

Enrich(rs) ==
    LET E == [k \in 1..Len(rs) |-> [row |-> rs[k], dt |-> RowDtMemo[rs[k]]]]
    IN SelectSeq(E, LAMBDA e : e.dt # None)

\* "Group by subject key": the keys in order of first appearance (dict order)
RECURSIVE GroupKeys(_, _)
GroupKeys(en, mode) ==
    IF en = <<>> THEN <<>>
    ELSE LET init == GroupKeys(SubSeq(en, 1, Len(en) - 1), mode)
             key  == subject_group_key(en[Len(en)].row.subject_id, mode)
         IN IF \E k \in 1..Len(init) : init[k] = key THEN init ELSE Append(init, key)

Group(en, mode, key) ==
    SelectSeq(en, LAMBDA e : subject_group_key(e.row.subject_id, mode) = key)

\* lst.sort(key=lambda x: x["_dt"]): stable, ascending
RECURSIVE SortByDt(_)
SortByDt(lst) ==
    IF lst = <<>> THEN <<>>
    ELSE LET init == SortByDt(SubSeq(lst, 1, Len(lst) - 1))
             x    == lst[Len(lst)]
             \* x goes behind every element that is not later than it
             n    == Cardinality({k \in 1..Len(init) : DtLeq(init[k].dt, x.dt)})
         IN SubSeq(init, 1, n) \o <<x>> \o SubSeq(init, n + 1, Len(init))

\* the two tests a pair (A, B) has to pass
SplitOk(c, a, b) == ~(c.same_split /\ a.row.split # b.row.split)

GapOk_Strict(c, a, b) == TdLess(td_thresh(c), DtSub(b.dt, a.dt))

GapOk(c, a, b) == ~TdLess(DtSub(b.dt, a.dt), td_thresh(c))

Qualifies(c, a, b) == SplitOk(c, a, b) /\ GapOk(c, a, b)

\* pairing == "edge": the pairs of one sorted group, as <<i, j>> index pairs
EdgePairs_Neighbours(c, lst) ==
    IF Qualifies(c, lst[1], lst[2]) THEN << <<1, 2>> >> ELSE <<>>

EdgePairs(c, lst) ==
    IF Qualifies(c, lst[1], lst[Len(lst)]) THEN << <<1, Len(lst)>> >> ELSE <<>>

\* pairing == "all": the double loop from (i, j) on, count pairs emitted so far
RECURSIVE ScanAll_InnerBreakOnly(_, _, _, _, _)
ScanAll_InnerBreakOnly(c, lst, i, j, count) ==
    IF i > Len(lst) THEN <<>>
    ELSE IF j > Len(lst) THEN ScanAll_InnerBreakOnly(c, lst, i + 1, i + 2, count)
    ELSE IF ~Qualifies(c, lst[i], lst[j]) THEN ScanAll_InnerBreakOnly(c, lst, i, j + 1, count)
    ELSE IF c.max_pairs > 0 /\ count + 1 >= c.max_pairs
         THEN << <<i, j>> >> \o ScanAll_InnerBreakOnly(c, lst, i + 1, i + 2, count + 1)
    ELSE << <<i, j>> >> \o ScanAll_InnerBreakOnly(c, lst, i, j + 1, count + 1)

RECURSIVE ScanAll(_, _, _, _, _)
ScanAll(c, lst, i, j, count) ==
    IF i > Len(lst) THEN <<>>
    ELSE IF j > Len(lst) THEN ScanAll(c, lst, i + 1, i + 2, count)
    ELSE IF ~Qualifies(c, lst[i], lst[j]) THEN ScanAll(c, lst, i, j + 1, count)
    ELSE IF c.max_pairs > 0 /\ count + 1 >= c.max_pairs THEN << <<i, j>> >>
    ELSE << <<i, j>> >> \o ScanAll(c, lst, i, j + 1, count + 1)

\* the body of "for key in keys" for one group: the index pairs it emits
GroupPairs(c, lst) ==
    IF Len(lst) < 2 THEN <<>>
    ELSE IF c.pairing = "edge" THEN EdgePairs(c, lst)
    ELSE ScanAll(c, lst, 1, 2, 0)

\* the two output rows of each pair, in order
RECURSIVE PairRows_LaterFirst(_, _)
PairRows_LaterFirst(lst, ps) ==
    IF ps = <<>> THEN <<>>
    ELSE <<lst[Head(ps)[2]].row, lst[Head(ps)[1]].row>> \o PairRows_LaterFirst(lst, Tail(ps))

RECURSIVE PairRows(_, _)
PairRows(lst, ps) ==
    IF ps = <<>> THEN <<>>
    ELSE <<lst[Head(ps)[1]].row, lst[Head(ps)[2]].row>> \o PairRows(lst, Tail(ps))

SortedGroup(en, mode, key) == SortByDt(Group(en, mode, key))

RECURSIVE EmitGroups(_, _, _)
EmitGroups(c, en, keys) ==
    IF keys = <<>> THEN <<>>
    ELSE LET lst == SortedGroup(en, c.subject_group, Head(keys))
         IN PairRows(lst, GroupPairs(c, lst)) \o EmitGroups(c, en, Tail(keys))

build_B(rs, c) ==
    LET en == Enrich(rs)
    IN EmitGroups(c, en, GroupKeys(en, c.subject_group))

(***************************************************************************)
(* File Candidate Matcher and default dataset builder:                     *)
(* convert_to_dataset_csv.py.                                              *)
(*                                                                         *)
(* A Path is the sequence of its parts, the first being the root "/";      *)
(* the file system is the set of the files under preprocessed_dir.         *)
(***************************************************************************)
\* str.startswith and the "in" operator on strings
StartsWith(t, pre) == Len(pre) <= Len(t) /\ SubSeq(t, 1, Len(pre)) = pre

Contains(t, sub) ==
    \E p \in 1..(Len(t) - Len(sub) + 1) : SubSeq(t, p, p + Len(sub) - 1) = sub

EndsWith(t, suf) == Len(suf) <= Len(t) /\ SubSeq(t, Len(t) - Len(suf) + 1, Len(t)) = suf

\* str.replace(old, new): every occurrence, left to right
RECURSIVE Replace(_, _, _)
Replace(t, old, new) ==
    IF t = <<>> THEN <<>>
    ELSE IF StartsWith(t, old) THEN new \o Replace(SubSeq(t, Len(old) + 1, Len(t)), old, new)
    ELSE <<Head(t)>> \o Replace(Tail(t), old, new)

\* Path.as_posix() / str(path) of an absolute path
RECURSIVE JoinParts(_)
JoinParts(ps) == IF ps = <<>> THEN <<>> ELSE <<"/">> \o Head(ps) \o JoinParts(Tail(ps))

as_posix(path) == JoinParts(Tail(path))

PathName(path) == path[Len(path)]

Parent(path) == SubSeq(path, 1, Len(path) - 1)

\* the order of str (code points) on the characters that occur in directory names
CharCodes == <<"1", "2", "3", "5", "7", "9", "I", "_", "s">>

CharCode(ch) == CHOOSE i \in 1..Len(CharCodes) : CharCodes[i] = ch

RECURSIVE StrLess(_, _)
StrLess(a, b) ==
    IF b = <<>> THEN FALSE
    ELSE IF a = <<>> THEN TRUE
    ELSE CharCode(Head(a)) < CharCode(Head(b))
            \/ (Head(a) = Head(b) /\ StrLess(Tail(a), Tail(b)))

\* sorted(...) of a set of names
RECURSIVE SortNames(_)
SortNames(S) ==
    IF S = {} THEN <<>>
    ELSE LET m == CHOOSE x \in S : \A y \in S \ {x} : StrLess(x, y)
         IN <<m>> \o SortNames(S \ {m})

PreRoot == << <<"/">>, <<"p">> >>

WarpedGz  == <<"t", "u", "r", "b", "o", "p", "r", "e", "p", "_", "W", "a", "r", "p", "e", "d", ".", "n", "i", "i", ".", "g", "z">>
WarpedNii == <<"t", "u", "r", "b", "o", "p", "r", "e", "p", "_", "W", "a", "r", "p", "e", "d", ".", "n", "i", "i">>
SegmGz    == <<"s", "e", "g", "m", ".", "n", "i", "i", ".", "g", "z">>
SegmNii   == <<"s", "e", "g", "m", ".", "n", "i", "i">>

\* the names of the sub-directories of directory d
SubDirNames(files, d) ==
    {f[Len(d) + 1] : f \in {g \in files : Len(g) > Len(d) + 1 /\ SubSeq(g, 1, Len(d)) = d}}

\* list_subject_dirs: sorted sub-directories of pre_root, "_ALL" left out
list_subject_dirs(files) ==
    SortNames(SubDirNames(files, PreRoot) \ { <<"_", "A", "L", "L">> })

\* the warped files directly in directory d, ".nii.gz" before ".nii"
WarpedIn(files, d) ==
    (IF Append(d, WarpedGz) \in files THEN <<Append(d, WarpedGz)>> ELSE <<>>)
        \o (IF Append(d, WarpedNii) \in files THEN <<Append(d, WarpedNii)>> ELSE <<>>)

RECURSIVE WarpedInSubs(_, _, _)
WarpedInSubs(files, d, subs) ==
    IF subs = <<>> THEN <<>>
    ELSE WarpedIn(files, Append(d, Head(subs))) \o WarpedInSubs(files, d, Tail(subs))

\* list_warped_under
list_warped_under(files, d) ==
    WarpedIn(files, d) \o WarpedInSubs(files, d, SortNames(SubDirNames(files, d)))

\* find_segm_near: None when the directory of the w file holds no segmentation
find_segm_near(files, w) ==
    IF Append(Parent(w), SegmGz) \in files THEN Append(Parent(w), SegmGz)
    ELSE IF Append(Parent(w), SegmNii) \in files THEN Append(Parent(w), SegmNii)
    ELSE None

\* subj2warped = {d.name: list_warped_under(d) for d in subj_dirs}
BuildIndex(files) ==
    LET names == list_subject_dirs(files)
    IN [k \in 1..Len(names) |->
          [dname |-> names[k], warped |-> list_warped_under(files, Append(PreRoot, names[k]))]]

\* normalize
normalize(t) == Strip(t)

score_candidate_NoPrefixLen(path, subject_id, image_id, series_id, image_visit) ==
    LET s_path == as_posix(path)
        subj == normalize(subject_id)   img == normalize(image_id)
        ser  == normalize(series_id)    vis == normalize(image_visit)
        parts == {path[k] : k \in 1..Len(path)}
        sSubj == IF subj # <<>> /\ subj \in parts THEN 100 ELSE 0
        sEq   == IF img # <<>> /\ img \in parts THEN 80 ELSE 0
        sPre  == IF img # <<>> /\ \E q \in parts : StartsWith(q, img) THEN 60 ELSE 0
        sIn   == IF img # <<>> /\ Contains(s_path, img) THEN 40 ELSE 0
        sSer  == IF ser # <<>> /\ Contains(s_path, ser) THEN 10 ELSE 0
        sVis  == IF vis # <<>> /\ Contains(s_path, vis) THEN 10 ELSE 0
    IN << sSubj + sEq + sPre + sIn + sSer + sVis, 0 >>

\* score_candidate: <<score, prefix_len>>
score_candidate(path, subject_id, image_id, series_id, image_visit) ==
    LET s_path == as_posix(path)
        subj == normalize(subject_id)   img == normalize(image_id)
        ser  == normalize(series_id)    vis == normalize(image_visit)
        parts == {path[k] : k \in 1..Len(path)}
        sSubj == IF subj # <<>> /\ subj \in parts THEN 100 ELSE 0
        sEq   == IF img # <<>> /\ img \in parts THEN 80 ELSE 0
        pre   == img # <<>> /\ \E q \in parts : StartsWith(q, img)
        sPre  == IF pre THEN 60 ELSE 0
        sIn   == IF img # <<>> /\ Contains(s_path, img) THEN 40 ELSE 0
        sSer  == IF ser # <<>> /\ Contains(s_path, ser) THEN 10 ELSE 0
        sVis  == IF vis # <<>> /\ Contains(s_path, vis) THEN 10 ELSE 0
    IN << sSubj + sEq + sPre + sIn + sSer + sVis, IF pre THEN Len(img) ELSE 0 >>

\* tuple comparison sc > best_score
ScoreGreater(a, b) == a[1] > b[1] \/ (a[1] = b[1] /\ a[2] > b[2])

ScoreGreaterEq(a, b) == a[1] > b[1] \/ (a[1] = b[1] /\ a[2] >= b[2])

\* the "for c in cands" loop of choose_best: <<best, best_score>> after cs[1..n]
RECURSIVE BestOf(_, _, _, _, _, _)
BestOf(cs, n, subject_id, image_id, series_id, image_visit) ==
    IF n = 0 THEN <<None, <<-1, -1>> >>
    ELSE LET prev == BestOf(cs, n - 1, subject_id, image_id, series_id, image_visit)
             sc   == score_candidate(cs[n], subject_id, image_id, series_id, image_visit)
         IN IF ScoreGreater(sc, prev[2]) THEN <<cs[n], sc>> ELSE prev

choose_best_LastWins(cs, subject_id, image_id, series_id, image_visit) ==
    LET RECURSIVE B(_)
        B(n) == IF n = 0 THEN <<None, <<-1, -1>> >>
                ELSE LET sc == score_candidate(cs[n], subject_id, image_id, series_id, image_visit)
                     IN IF ScoreGreaterEq(sc, B(n - 1)[2]) THEN <<cs[n], sc>> ELSE B(n - 1)
        b == B(Len(cs))
    IN IF cs = <<>> THEN None
       ELSE IF Len(cs) > 1 /\ b[2][1] <= 0 THEN None
       ELSE b[1]

choose_best(cs, subject_id, image_id, series_id, image_visit) ==
    LET b == BestOf(cs, Len(cs), subject_id, image_id, series_id, image_visit)
    IN IF cs = <<>> THEN None
       ELSE IF Len(cs) > 1 /\ b[2][1] <= 0 THEN None
       ELSE b[1]

\* "collect candidates": the pool of one row
RECURSIVE ConcatWarped(_)
ConcatWarped(entries) ==
    IF entries = <<>> THEN <<>> ELSE Head(entries).warped \o ConcatWarped(Tail(entries))

Candidates_NoRepeat(index, subject_id, image_id) ==
    LET bySubj == IF subject_id # <<>>
                  THEN ConcatWarped(SelectSeq(index, LAMBDA e : e.dname = subject_id))
                  ELSE <<>>
        byImg  == IF image_id # <<>>
                  THEN ConcatWarped(SelectSeq(index, LAMBDA e :
                          /\ e.dname # subject_id
                          /\ StartsWith(e.dname, image_id) \/ Contains(e.dname, image_id)))
                  ELSE <<>>
        pool   == bySubj \o byImg
    IN IF pool = <<>> THEN ConcatWarped(index) ELSE pool

Candidates(index, subject_id, image_id) ==
    LET bySubj == IF subject_id # <<>>
                  THEN ConcatWarped(SelectSeq(index, LAMBDA e : e.dname = subject_id))
                  ELSE <<>>
        byImg  == IF image_id # <<>>
                  THEN ConcatWarped(SelectSeq(index, LAMBDA e :
                          StartsWith(e.dname, image_id) \/ Contains(e.dname, image_id)))
                  ELSE <<>>
        pool   == bySubj \o byImg
    IN IF pool = <<>> THEN ConcatWarped(index) ELSE pool

\* the dataset.csv row of a matched source row (meta is empty: no --metadata_csv)
DatasetRow(files, w, subject_id, image_id, split) ==
    LET segm == find_segm_near(files, w)
        image_path == as_posix(w)
    IN [ subject_id |-> subject_id,
         image_uid |-> IF image_id # <<>> THEN image_id
                       ELSE IF EndsWith(PathName(w), <<".", "n", "i", "i", ".", "g", "z">>)
                            THEN SubSeq(PathName(w), 1, Len(PathName(w)) - 7)
                            ELSE SubSeq(PathName(w), 1, Len(PathName(w)) - 4),
         split |-> split,
         sex |-> <<>>, age |-> <<>>, diagnosis |-> <<>>, last_diagnosis |-> <<>>,
         image_path |-> image_path,
         segm_path |-> IF segm = None THEN <<>> ELSE as_posix(segm),
         latent_path |-> Replace(Replace(image_path, <<".", "n", "i", "i", ".", "g", "z">>, <<"_", "l", "a", "t", "e", "n", "t", ".", "n", "p", "z">>),
                                 <<".", "n", "i", "i">>, <<"_", "l", "a", "t", "e", "n", "t", ".", "n", "p", "z">>) ]

(***************************************************************************)
(* Manifest-merge builder: prepare_csv_build.build_dataset.                *)
(*                                                                         *)
(* A sheet row is the record of the cells of the columns ColFinder         *)
(* resolved (image id, subject id, date, sex); read_rows has stripped the  *)
(* cells.  A date cell stands for what parse_date_from_values makes of     *)
(* it: None or <<d>> for day d.  The age, diagnosis and split columns are     *)
(* not modelled.                                                           *)
(***************************************************************************)
LowerChars == <<"m", "a", "l", "e", "f", "x">>
UpperChars == <<"M", "A", "L", "E", "F", "X">>

\* str.upper() on the characters that occur in sex cells
UpperChar(ch) ==
    IF \E i \in 1..Len(LowerChars) : LowerChars[i] = ch
    THEN UpperChars[CHOOSE i \in 1..Len(LowerChars) : LowerChars[i] = ch]
    ELSE ch

Upper(t) == [k \in 1..Len(t) |-> UpperChar(t[k])]

normalize_sex_Empty(val) ==
    LET u == Upper(Strip(val))
    IN IF u \in { <<"M">>, <<"M", "A", "L", "E">> } THEN <<"M">>
       ELSE IF u \in { <<"F">>, <<"F", "E", "M", "A", "L", "E">> } THEN <<"F">>
       ELSE <<>>

normalize_sex(val) ==
    LET u == Upper(Strip(val))
    IN IF u \in { <<"M">>, <<"M", "A", "L", "E">> } THEN <<"M">>
       ELSE IF u \in { <<"F">>, <<"F", "E", "M", "A", "L", "E">> } THEN <<"F">>
       ELSE u

\* sex="0" if sex_raw=="M" else "1" if sex_raw=="F" else ""
SexCode(raw) ==
    IF raw = <<"M">> THEN <<"0">> ELSE IF raw = <<"F">> THEN <<"1">> ELSE <<>>

\* pick_first of two values
pick_first(a, b) == IF a # <<>> THEN a ELSE b

\* re.sub(r'^[iI]', '', uid_raw)
StripI(uid_raw) ==
    IF uid_raw # <<>> /\ Head(uid_raw) \in {"i", "I"} THEN Tail(uid_raw) ELSE uid_raw

\* the cell of a column of a row that may be None (ad = find_adni(mr) or {})
Cell(row, name) == IF row = None THEN <<>> ELSE row[name]

\* idx_uid: the last ADNI row of each non-empty stripped image id
IdxUid(rs) ==
    LET keys == {StripI(rs[k].uid) : k \in 1..Len(rs)} \ { <<>> }
    IN [u \in keys |-> rs[Max({k \in 1..Len(rs) : StripI(rs[k].uid) = u})]]

\* sort(key=lambda x: (x[0] is None, x[0])): stable, dated rows first in date order
DateKeyLeq(a, b) == (a = None => b = None) /\ (a # None /\ b # None => a[1] <= b[1])

RECURSIVE SortByDate(_)
SortByDate(lst) ==
    IF lst = <<>> THEN <<>>
    ELSE LET init == SortByDate(SubSeq(lst, 1, Len(lst) - 1))
             x    == lst[Len(lst)]
             n    == Cardinality({k \in 1..Len(init) : DateKeyLeq(init[k].date, x.date)})
         IN SubSeq(init, 1, n) \o <<x>> \o SubSeq(init, n + 1, Len(init))

\* idx_subj: the ADNI rows of each non-empty subject id, sorted
IdxSubj(rs) ==
    LET keys == {rs[k].subj : k \in 1..Len(rs)} \ { <<>> }
    IN [sj \in keys |-> SortByDate(SelectSeq(rs, LAMBDA r : r.subj = sj))]

Abs(n) == IF n < 0 THEN -n ELSE n

\* the loop of find_adni over the candidates: the first row at the least distance
ClosestByDate(candidates, mdt) ==
    LET D == {k \in 1..Len(candidates) : candidates[k].date # None}
        dist(k) == Abs(candidates[k].date[1] - mdt[1])
    IN IF D = {} THEN None
       ELSE candidates[Min({k \in D : \A j \in D : dist(k) <= dist(j)})]

find_adni(iu, isj, m) ==
    IF m.uid # <<>> /\ m.uid \in DOMAIN iu THEN iu[m.uid]
    ELSE IF m.subj = <<>> THEN None
    ELSE IF m.subj \notin DOMAIN isj THEN None
    ELSE LET candidates == isj[m.subj]
         IN IF m.date = None THEN candidates[Len(candidates)]
            ELSE IF ClosestByDate(candidates, m.date) # None
                 THEN ClosestByDate(candidates, m.date)
                 ELSE candidates[Len(candidates)]

\* re.search(r'I?(\d+)(?=_)', name): group(1) of the leftmost match, None without one
DigitsEnd(t, p) == Max({e \in p..Len(t) : \A k \in p..e : IsDigit(t[k])})

DirUid(name) ==
    LET from(p) == IF name[p] = "I" /\ p < Len(name) /\ IsDigit(name[p + 1]) THEN p + 1 ELSE p
        ok(p) == /\ IsDigit(name[from(p)])
                 /\ DigitsEnd(name, from(p)) < Len(name)
                 /\ name[DigitsEnd(name, from(p)) + 1] = "_"
        M == {p \in 1..Len(name) : ok(p)}
    IN IF M = {} THEN None
       ELSE SubSeq(name, from(Min(M)), DigitsEnd(name, from(Min(M))))

\* path_map[uid]['img'] for the directories that hold a warped image
PathMap(names) ==
    LET uids == {DirUid(n) : n \in names} \ {None}
    IN [u \in uids |->
          as_posix(<< <<"/">>, <<"p">>, CHOOSE n \in names : DirUid(n) = u, WarpedGz >>)]

\* the body of "for mr in manifest_rows": the row appended to out_rows, None for "continue"
MergedRow_KeepEmpty(m, a, pm) ==
    LET subj == pick_first(m.subj, Cell(a, "subj"))
        uid  == StripI(pick_first(m.uid, Cell(a, "uid")))
    IN [ subject_id |-> subj, image_uid |-> uid,
         sex |-> SexCode(normalize_sex(Cell(a, "sex"))),
         image_path |-> IF uid \in DOMAIN pm THEN pm[uid] ELSE <<>> ]

MergedRow(m, a, pm) ==
    LET subj == pick_first(m.subj, Cell(a, "subj"))
        uid  == StripI(pick_first(m.uid, Cell(a, "uid")))
    IN IF subj = <<>> /\ uid = <<>> THEN None
       ELSE [ subject_id |-> subj, image_uid |-> uid,
              sex |-> SexCode(normalize_sex(Cell(a, "sex"))),
              image_path |-> IF uid \in DOMAIN pm THEN pm[uid] ELSE <<>> ]

(***************************************************************************)
(* Inputs of the extractor: fragments assembled from tokens.               *)
(***************************************************************************)
Tokens ==
    { <<"_">>,                                       \* a separator
      <<"7">>,                                       \* a lone digit, lengthens a run
      ToDigits(20180315, 8) \o ToDigits(120000, 6),  \* a date-time
      ToDigits(20180230, 8) \o ToDigits(120000, 6),  \* fits TS14, no calendar date
      ToDigits(20200101, 8),                         \* a date
      ToDigits(20201301, 8),                         \* fits TS8, no calendar date
      ToDigits(2019, 4) }                            \* a year

IdleDicom ==
    tool = "none" /\ tree = <<>> /\ d_pc = "idle" /\ found = FALSE /\ walk_i = 0 /\ calls = <<>> /\ started = 0

IdleCols ==
    headers = <<>> /\ canon = <<>> /\ patterns = <<>> /\ col = None /\ f_pc = "idle"

IdleTS == texts = <<>> /\ ntok = 0 /\ ts_pc = "idle" /\ ts_result = None

IdlePair == rows = <<>> /\ cfg = <<>> /\ b_pc = "idle" /\ b_rows = <<>>

IdleSex ==
    v = <<>> /\ s_n = 0 /\ s_pc = "idle" /\ sex_raw = <<>> /\ sex = <<>> /\ sex_again = <<>>

IdleMerge ==
    /\ adni_rows = <<>> /\ pre_dirs = {} /\ idx_uid = <<>> /\ idx_subj = <<>> /\ path_map = <<>>
    /\ m_pc = "idle" /\ mr = <<>> /\ ad = None /\ m_n = 0 /\ m_out = <<>>

IdleConv ==
    /\ fs = {} /\ subj2warped = <<>> /\ c_pc = "idle" /\ idx = 0
    /\ cur = <<>> /\ cands = <<>> /\ warped = None
    /\ out_rows = <<>> /\ skipped = 0 /\ matched = 0

InitTS ==
    /\ prog = "ts"
    /\ texts = << <<>> >>
    /\ ntok = 0
    /\ ts_pc = "input"
    /\ ts_result = None
    /\ IdlePair /\ IdleConv /\ IdleMerge /\ IdleSex /\ IdleDicom /\ IdleCols

\* the caller's argument list grows: a token is appended to the last fragment
AppendToken ==
    /\ prog = "ts" /\ ts_pc = "input" /\ ntok < MaxTokens
    /\ \E tok \in Tokens :
          texts' = [texts EXCEPT ![Len(texts)] = @ \o tok]
    /\ ntok' = ntok + 1
    /\ UNCHANGED <<prog, ts_pc, ts_result, notTS>>

\* the caller's argument list grows: a further (empty) fragment is started
NewFragment ==
    /\ prog = "ts" /\ ts_pc = "input" /\ Len(texts) < MaxFrags
    /\ texts' = Append(texts, <<>>)
    /\ UNCHANGED <<prog, ntok, ts_pc, ts_result, notTS>>

\* the call parse_timestamp_from_texts(*texts)
ParseCall ==
    /\ prog = "ts" /\ ts_pc = "input"
    /\ ts_result' = parse_timestamp_from_texts(texts)
    /\ ts_pc' = "done"
    /\ UNCHANGED <<prog, texts, ntok, notTS>>

NextTS == AppendToken \/ NewFragment \/ ParseCall

SpecTS == InitTS /\ [][NextTS]_vars

(***************************************************************************)
(* Inputs of the pairing engine: the command line and the rows of          *)
(* dataset.csv.                                                            *)
(***************************************************************************)
\* <<min_days, min_years>>
Thresholds == { <<0, 0>>, <<1, 1>> }

Configs ==
    { [ pairing |-> pm, min_days |-> th[1], min_years |-> th[2], same_split |-> ss,
        max_pairs |-> cap, subject_group |-> gm ] :
        pm \in {"edge", "all"}, th \in Thresholds, ss \in BOOLEAN,
        cap \in 0..MaxCap, gm \in {"exact", "first_token"} }

InitPair ==
    /\ prog = "pair"
    /\ rows = <<>>
    /\ cfg = <<>>
    /\ b_pc = "input"
    /\ b_rows = <<>>
    /\ IdleTS /\ IdleConv /\ IdleMerge /\ IdleSex /\ IdleDicom /\ IdleCols

\* read_dataset_rows: one more row of dataset.csv
ReadRow ==
    /\ prog \in {"pair", "keys"} /\ b_pc = "input" /\ Len(rows) < MaxRows
    /\ \E r \in (IF prog = "pair" THEN RowValues ELSE KeyRowValues) : rows' = Append(rows, r)
    /\ UNCHANGED <<prog, cfg, b_pc, b_rows, notPair>>

\* B = build_B(rows, pairing=args.pairing, ...), with the command line's options
BuildB ==
    /\ prog \in {"pair", "keys"} /\ b_pc = "input"
    /\ \E c \in Configs :
          /\ cfg' = c
          /\ b_rows' = build_B(rows, c)
    /\ b_pc' = "done"
    /\ UNCHANGED <<prog, rows, notPair>>

NextPair == ReadRow \/ BuildB

SpecPair == InitPair /\ [][NextPair]_vars

\* the pairing run on rows picked for their grouping keys
InitKeys ==
    /\ prog = "keys"
    /\ rows = <<>>
    /\ cfg = <<>>
    /\ b_pc = "input"
    /\ b_rows = <<>>
    /\ IdleTS /\ IdleConv /\ IdleMerge /\ IdleSex /\ IdleDicom /\ IdleCols

SpecKeys == InitKeys /\ [][NextPair]_vars

(***************************************************************************)
(* Inputs of the default builder: the preprocessed directory and the rows  *)
(* of the source CSV.                                                      *)
(***************************************************************************)
DirNames == { <<"1", "2", "3">>, <<"I", "5", "5">> }

\* what a subject directory d can hold
Layouts(d) ==
    { {},                                                   \* no such directory
      { Append(d, SegmGz) },                                \* no warped file
      { Append(d, WarpedGz), Append(d, SegmGz) },
      { Append(d, WarpedGz), Append(d, WarpedNii) },
      { Append(Append(d, <<"s">>), WarpedGz), Append(Append(d, <<"s">>), SegmNii) } }

FileSystems ==
    { UNION {pick[n] : n \in DirNames} :
        pick \in {f \in [DirNames -> UNION {Layouts(Append(PreRoot, n)) : n \in DirNames}] :
                    \A n \in DirNames : f[n] \in Layouts(Append(PreRoot, n))} }

SrcRows ==
    [ subject_id : { <<>>, <<"1", "2", "3">>, <<" ", "1", "2", "3">>, <<"7", "7">> },
      image_id : { <<>>, <<"1", "2">>, <<"1", "2", "3">>, <<"5", "5">>, <<"9", "9">> },
      series_id : { <<>>, <<"s">> },
      image_visit : { <<>>, <<"z">> },
      split : { <<>> } ]

InitConv ==
    /\ prog = "convert"
    /\ fs \in FileSystems
    /\ subj2warped = <<>>
    /\ c_pc = "scan"
    /\ cur = <<>> /\ cands = <<>> /\ warped = None
    /\ idx = 0 /\ out_rows = <<>> /\ skipped = 0 /\ matched = 0
    /\ IdleTS /\ IdlePair /\ IdleMerge /\ IdleSex /\ IdleDicom /\ IdleCols

\* main: the directory scan that builds subj2warped
ScanDirs ==
    /\ prog = "convert" /\ c_pc = "scan"
    /\ subj2warped' = BuildIndex(fs)
    /\ c_pc' = "rows"
    /\ UNCHANGED <<prog, fs, cur, cands, warped, idx, out_rows, skipped, matched, notConv>>

\* main: one pass of "for idx, r in enumerate(iterator, 1)"
ProcessRow ==
    /\ prog = "convert" /\ c_pc = "rows" /\ idx < MaxSrcRows
    /\ \E r \in SrcRows :
          LET subject_id  == normalize(r.subject_id)
              image_id    == normalize(r.image_id)
              series_id   == normalize(r.series_id)
              image_visit == normalize(r.image_visit)
              split       == IF normalize(r.split) # <<>> THEN normalize(r.split)
                             ELSE <<"t", "r", "a", "i", "n">>
              pool        == Candidates(subj2warped, subject_id, image_id)
              best        == choose_best(pool, subject_id, image_id, series_id, image_visit)
          IN /\ cur' = [subject_id |-> subject_id, image_id |-> image_id,
                        series_id |-> series_id, image_visit |-> image_visit]
             /\ cands' = pool
             /\ warped' = best
             /\ IF best = None
                THEN /\ skipped' = skipped + 1
                     /\ UNCHANGED <<out_rows, matched>>
                ELSE /\ out_rows' = Append(out_rows, DatasetRow(fs, best, subject_id, image_id, split))
                     /\ matched' = matched + 1
                     /\ UNCHANGED skipped
    /\ idx' = idx + 1
    /\ UNCHANGED <<prog, fs, subj2warped, c_pc, notConv>>

\* main: dataset.csv is written from out_rows
WriteDataset ==
    /\ prog = "convert" /\ c_pc = "rows"
    /\ c_pc' = "done"
    /\ UNCHANGED <<prog, fs, subj2warped, cur, cands, warped, idx, out_rows, skipped, matched, notConv>>

NextConv == ScanDirs \/ ProcessRow \/ WriteDataset

SpecConv == InitConv /\ [][NextConv]_vars

(***************************************************************************)
(* Inputs of the manifest-merge builder.                                   *)
(***************************************************************************)
\* the date and sex cells of an ADNI row
AdniCells ==
    { <<None, <<"M">>>>, << <<1>>, <<"f", "e", "m", "a", "l", "e">> >>, << <<5>>, <<"x">> >> }

AdniRows ==
    { [uid |-> u, subj |-> sj, date |-> c[1], sex |-> c[2]] :
        u \in { <<>>, <<"I", "1", "2", "3">>, <<"I", "I">> }, sj \in { <<>>, <<"S">> }, c \in AdniCells }

ManifestRows ==
    [ uid : { <<>>, <<"I">>, <<"I", "1", "2", "3">>, <<"1", "2", "3">> },
      subj : { <<>>, <<"S">> },
      date : { None, <<2>> } ]

PreDirSets == { {}, { <<"I", "1", "2", "3", "_", "a">>, <<"5", "5">> } }

InitMerge ==
    /\ prog = "merge"
    /\ adni_rows = <<>>
    /\ pre_dirs \in PreDirSets
    /\ idx_uid = <<>> /\ idx_subj = <<>> /\ path_map = <<>>
    /\ m_pc = "read"
    /\ mr = <<>> /\ ad = None /\ m_n = 0 /\ m_out = <<>>
    /\ IdleTS /\ IdlePair /\ IdleConv /\ IdleSex /\ IdleDicom /\ IdleCols

\* read_rows(adni_path): one more row of the ADNI sheet
ReadAdniRow ==
    /\ prog = "merge" /\ m_pc = "read" /\ Len(adni_rows) < MaxAdniRows
    /\ \E r \in AdniRows : adni_rows' = Append(adni_rows, r)
    /\ UNCHANGED <<prog, pre_dirs, idx_uid, idx_subj, path_map, m_pc, mr, ad, m_n, m_out, notMerge>>

\* build_dataset up to the manifest loop: idx_uid, idx_subj and path_map are built
BuildIndexes ==
    /\ prog = "merge" /\ m_pc = "read"
    /\ idx_uid' = IdxUid(adni_rows)
    /\ idx_subj' = IdxSubj(adni_rows)
    /\ path_map' = PathMap(pre_dirs)
    /\ m_pc' = "rows"
    /\ UNCHANGED <<prog, adni_rows, pre_dirs, mr, ad, m_n, m_out, notMerge>>

\* build_dataset: one pass of "for mr in manifest_rows"
MergeRow ==
    /\ prog = "merge" /\ m_pc = "rows" /\ m_n < MaxManRows
    /\ \E m \in ManifestRows :
          LET a == find_adni(idx_uid, idx_subj, m)
              row == MergedRow(m, a, path_map)
          IN /\ mr' = m
             /\ ad' = a
             /\ m_out' = IF row = None THEN m_out ELSE Append(m_out, row)
    /\ m_n' = m_n + 1
    /\ UNCHANGED <<prog, adni_rows, pre_dirs, idx_uid, idx_subj, path_map, m_pc, notMerge>>

\* main: dataset.csv is written from out_rows
WriteMerged ==
    /\ prog = "merge" /\ m_pc = "rows"
    /\ m_pc' = "done"
    /\ UNCHANGED <<prog, adni_rows, pre_dirs, idx_uid, idx_subj, path_map, mr, ad, m_n, m_out, notMerge>>

NextMerge == ReadAdniRow \/ BuildIndexes \/ MergeRow \/ WriteMerged

SpecMerge == InitMerge /\ [][NextMerge]_vars

\* the two dataset builders
InitBuilders == InitConv \/ InitMerge

NextBuilders == NextConv \/ NextMerge

SpecBuilders == InitBuilders /\ [][NextBuilders]_vars

(***************************************************************************)
(* Sex normalization: normalize_sex and the code build_dataset makes of    *)
(* it.                                                                     *)
(***************************************************************************)
SexTokens ==
    { <<" ">>, <<"m">>, <<"M">>, <<"f">>, <<"F">>, <<"x">>,
      <<"a", "l", "e">>, <<"A", "L", "E">>, <<"e", "m", "a", "l", "e">>, <<"E", "M", "A", "L", "E">> }

InitSex ==
    /\ prog = "sex"
    /\ v = <<>> /\ s_n = 0 /\ s_pc = "input"
    /\ sex_raw = <<>> /\ sex = <<>> /\ sex_again = <<>>
    /\ IdleTS /\ IdlePair /\ IdleConv /\ IdleMerge /\ IdleDicom /\ IdleCols

\* one more piece of the argument
AppendSexToken ==
    /\ prog = "sex" /\ s_pc = "input" /\ s_n < MaxSexTokens
    /\ \E t \in SexTokens : v' = v \o t
    /\ s_n' = s_n + 1
    /\ UNCHANGED <<prog, s_pc, sex_raw, sex, sex_again, notSex>>

\* build_dataset: sex_raw = normalize_sex(...) and the code made of it
NormalizeSex ==
    /\ prog = "sex" /\ s_pc = "input"
    /\ sex_raw' = normalize_sex(v)
    /\ sex' = SexCode(normalize_sex(v))
    /\ s_pc' = "once"
    /\ UNCHANGED <<prog, v, s_n, sex_again, notSex>>

\* normalize_sex called on its own result
NormalizeAgain ==
    /\ prog = "sex" /\ s_pc = "once"
    /\ sex_again' = normalize_sex(sex_raw)
    /\ s_pc' = "twice"
    /\ UNCHANGED <<prog, v, s_n, sex_raw, sex, notSex>>

NextSex == AppendSexToken \/ NormalizeSex \/ NormalizeAgain

SpecSex == InitSex /\ [][NextSex]_vars

(***************************************************************************)
(* Batch DICOM conversion: batch_dicom_to_nifti.                           *)
(*                                                                         *)
(* What running dcm2niix meets is fixed for a run: "present" (it starts),  *)
(* "missing" (FileNotFoundError) or "unrunnable" (another OSError, which   *)
(* nothing catches).                                                       *)
(***************************************************************************)
UpperLetters == <<"A", "B", "C", "D", "E", "F", "G", "H", "I", "J", "K", "L", "M", "N", "O", "P", "Q", "R", "S", "T", "U", "V", "W", "X", "Y", "Z">>
LowerLetters == <<"a", "b", "c", "d", "e", "f", "g", "h", "i", "j", "k", "l", "m", "n", "o", "p", "q", "r", "s", "t", "u", "v", "w", "x", "y", "z">>

\* str.lower() on ASCII
LowerChar(ch) ==
    IF \E i \in 1..Len(UpperLetters) : UpperLetters[i] = ch
    THEN LowerLetters[CHOOSE i \in 1..Len(UpperLetters) : UpperLetters[i] = ch]
    ELSE ch

Lower(t) == [k \in 1..Len(t) |-> LowerChar(t[k])]

\* any(f.lower().endswith(".dcm") for f in files)
HasDcm(files) == \E f \in files : EndsWith(Lower(f), <<".", "d", "c", "m">>)

check_dcm2niix_Always(t) == TRUE

\* True unless running "dcm2niix -h" raises FileNotFoundError
check_dcm2niix(t) == t # "missing"

FileNames == { <<"a", ".", "d", "c", "m">>, <<"A", ".", "D", "C", "M">>, <<"a", ".", "t", "x", "t">>, <<"d", "c", "m">> }

InitDicom ==
    /\ prog = "dicom"
    /\ tool \in {"present", "missing", "unrunnable"}
    /\ tree = <<>> /\ d_pc = "tree"
    /\ found = FALSE /\ walk_i = 0 /\ calls = <<>> /\ started = 0
    /\ IdleTS /\ IdlePair /\ IdleConv /\ IdleMerge /\ IdleSex /\ IdleCols

\* one more folder under DICOM_ROOT before the script runs
AddFolder ==
    /\ prog = "dicom" /\ d_pc = "tree" /\ Len(tree) < MaxFolders
    /\ \E files \in SUBSET FileNames : tree' = Append(tree, files)
    /\ UNCHANGED <<prog, tool, d_pc, found, walk_i, calls, started, notDicom>>

\* __main__: if not check_dcm2niix(): print the error, else batch_convert(...)
CheckTool ==
    /\ prog = "dicom" /\ d_pc = "tree"
    /\ IF tool = "unrunnable"
       THEN d_pc' = "crashed" /\ UNCHANGED found
       ELSE /\ found' = check_dcm2niix(tool)
            /\ d_pc' = IF check_dcm2niix(tool) THEN "walk" ELSE "aborted"
    /\ UNCHANGED <<prog, tool, tree, walk_i, calls, started, notDicom>>

\* batch_convert: one folder of os.walk, converted when it holds a .dcm file
WalkStep ==
    /\ prog = "dicom" /\ d_pc = "walk" /\ walk_i < Len(tree)
    /\ walk_i' = walk_i + 1
    /\ IF HasDcm(tree[walk_i + 1])
       THEN /\ calls' = Append(calls, walk_i + 1)
            /\ IF tool = "present"
               THEN started' = started + 1 /\ UNCHANGED d_pc
               ELSE d_pc' = "crashed" /\ UNCHANGED started
       ELSE UNCHANGED <<calls, started, d_pc>>
    /\ UNCHANGED <<prog, tool, tree, found, notDicom>>

\* batch_convert: the walk is over
FinishWalk ==
    /\ prog = "dicom" /\ d_pc = "walk" /\ walk_i = Len(tree)
    /\ d_pc' = "done"
    /\ UNCHANGED <<prog, tool, tree, found, walk_i, calls, started, notDicom>>

NextDicom == AddFolder \/ CheckTool \/ WalkStep \/ FinishWalk

SpecDicom == InitDicom /\ [][NextDicom]_vars

(***************************************************************************)
(* Column lookup: prepare_csv_build.ColFinder.                             *)
(*                                                                         *)
(* A pattern of find is the record of what its regular expression stands   *)
(* for: the literals it spells (an optional group gives two), and whether  *)
(* it is anchored with ^ and with $.                                       *)
(***************************************************************************)
\* re.sub(r"[^a-z0-9]", "", h.lower())
CanonKey(h) ==
    SelectSeq(Lower(h), LAMBDA ch : IsDigit(ch) \/ \E i \in 1..Len(LowerLetters) : LowerLetters[i] = ch)

\* ColFinder.__init__: canon after the first n headers
RECURSIVE CanonOf(_, _)
CanonOf(hs, n) ==
    IF n = 0 THEN <<>>
    ELSE LET before == CanonOf(hs, n - 1)
             k == CanonKey(hs[n])
         IN IF k # <<>> /\ \A j \in 1..Len(before) : before[j].k # k
            THEN Append(before, [k |-> k, orig |-> hs[n]])
            ELSE before

\* rx.search(k)
Search(pat, k) ==
    \E a \in pat.alts : \E p \in 1..(Len(k) - Len(a) + 1) :
       /\ SubSeq(k, p, p + Len(a) - 1) = a
       /\ pat.start => p = 1
       /\ pat.end => p + Len(a) - 1 = Len(k)

\* rx.fullmatch(k)
Fullmatch(pat, k) == k \in pat.alts

\* ColFinder.find: the loop over patterns i..end
RECURSIVE FindFrom(_, _, _)
FindFrom(cn, pats, i) ==
    IF i > Len(pats) THEN None
    ELSE LET hits == {j \in 1..Len(cn) : Fullmatch(pats[i], cn[j].k) \/ Search(pats[i], cn[j].k)}
         IN IF hits # {} THEN cn[Min(hits)].orig ELSE FindFrom(cn, pats, i + 1)

find(cn, pats) == FindFrom(cn, pats, 1)

\* r"^imageuid$", r"image(data)?id", r"imageuid"
UidPatterns ==
    << [alts |-> {<<"i", "m", "a", "g", "e", "u", "i", "d">>}, start |-> TRUE, end |-> TRUE],
       [alts |-> {<<"i", "m", "a", "g", "e", "i", "d">>, <<"i", "m", "a", "g", "e", "d", "a", "t", "a", "i", "d">>}, start |-> FALSE, end |-> FALSE],
       [alts |-> {<<"i", "m", "a", "g", "e", "u", "i", "d">>}, start |-> FALSE, end |-> FALSE] >>

\* r"exam(date)?$", r"scan(date)?$", r"imagedate$", r"date$"
DatePatterns ==
    << [alts |-> {<<"e", "x", "a", "m">>, <<"e", "x", "a", "m", "d", "a", "t", "e">>}, start |-> FALSE, end |-> TRUE],
       [alts |-> {<<"s", "c", "a", "n">>, <<"s", "c", "a", "n", "d", "a", "t", "e">>}, start |-> FALSE, end |-> TRUE],
       [alts |-> {<<"i", "m", "a", "g", "e", "d", "a", "t", "e">>}, start |-> FALSE, end |-> TRUE],
       [alts |-> {<<"d", "a", "t", "e">>}, start |-> FALSE, end |-> TRUE] >>

PatternLists == {UidPatterns, DatePatterns}

HeaderNames ==
    { <<"U", "p", "d", "a", "t", "e">>, <<"D", "a", "t", "e">>, <<"E", "x", "a", "m", " ", "D", "a", "t", "e">>, <<"E", "X", "A", "M", "D", "A", "T", "E">>, <<"I", "m", "a", "g", "e", " ", "U", "I", "D">>, <<"m", "y", "_", "i", "m", "a", "g", "e", "u", "i", "d">>, <<"-", "-">> }

InitCols ==
    /\ prog = "cols"
    /\ headers = <<>> /\ canon = <<>> /\ patterns = <<>> /\ col = None /\ f_pc = "sheet"
    /\ IdleTS /\ IdlePair /\ IdleConv /\ IdleMerge /\ IdleSex /\ IdleDicom

\* one more column of the sheet (the keys of a row are distinct)
AddHeader ==
    /\ prog = "cols" /\ f_pc = "sheet" /\ Len(headers) < MaxHeaders
    /\ \E h \in HeaderNames :
          /\ \A j \in 1..Len(headers) : headers[j] # h
          /\ headers' = Append(headers, h)
    /\ UNCHANGED <<prog, canon, patterns, col, f_pc, notCols>>

\* ColFinder(list(rows[0].keys()))
MakeFinder ==
    /\ prog = "cols" /\ f_pc = "sheet"
    /\ canon' = CanonOf(headers, Len(headers))
    /\ f_pc' = "finder"
    /\ UNCHANGED <<prog, headers, patterns, col, notCols>>

\* ColFinder.find(*patterns)
FindColumn ==
    /\ prog = "cols" /\ f_pc = "finder"
    /\ \E pats \in PatternLists :
          /\ patterns' = pats
          /\ col' = find(canon, pats)
    /\ f_pc' = "found"
    /\ UNCHANGED <<prog, headers, canon, notCols>>

NextCols == AddHeader \/ MakeFinder \/ FindColumn

SpecCols == InitCols /\ [][NextCols]_vars

Init == InitTS \/ InitPair \/ InitConv \/ InitMerge \/ InitSex \/ InitDicom \/ InitCols \/ InitKeys

Next == NextTS \/ NextPair \/ NextConv \/ NextMerge \/ NextSex \/ NextDicom \/ NextCols

Spec == Init /\ [][Next]_vars

(***************************************************************************)
(* Properties of the timestamp extractor.  Digit runs are described here   *)
(* without the regular expressions: a run is maximal when the characters   *)
(* on both sides are not digits.                                           *)
(***************************************************************************)
MaximalRun(t, p, n) ==
    /\ p >= 1 /\ p + n - 1 <= Len(t)
    /\ \A k \in p..(p + n - 1) : IsDigit(t[k])
    /\ (p = 1 \/ ~IsDigit(t[p - 1]))
    /\ (p + n > Len(t) \/ ~IsDigit(t[p + n]))

Spell14(dt) ==
    ToDigits(dt[1], 4) \o ToDigits(dt[2], 2) \o ToDigits(dt[3], 2)
        \o ToDigits(dt[4], 2) \o ToDigits(dt[5], 2) \o ToDigits(dt[6], 2)

Spell8(dt) == ToDigits(dt[1], 4) \o ToDigits(dt[2], 2) \o ToDigits(dt[3], 2)

Run(t, p, n) == SubSeq(t, p, p + n - 1)

\* the maximal 14-digit runs of t whose digits fit the ranges of TS14
Fit14(t) == {p \in 1..Len(t) : MaximalRun(t, p, 14) /\ DateClasses(t, p) /\ TimeClasses(t, p + 8)}
Fit8(t)  == {p \in 1..Len(t) : MaximalRun(t, p, 8) /\ DateClasses(t, p)}
Fit4(t)  == {p \in 1..Len(t) : MaximalRun(t, p, 4) /\ InClass(t[p], 1, 2)}

\* the digits at p spell a calendar date-time
IsDateTime14(t, p) ==
    /\ ValidDate(Num4(t, p), Num2(t, p + 4), Num2(t, p + 6))
    /\ Num2(t, p + 8) <= 23

\* the fragments whose first fitting 14-digit run spells a calendar date-time
Lead14Frags == {i \in 1..Len(texts) : Fit14(texts[i]) # {} /\ IsDateTime14(texts[i], Min(Fit14(texts[i])))}

C2_OnlyWholeRuns ==
    ts_pc = "done" =>
       /\ ts_result # None =>
             \E i \in 1..Len(texts) : \E p \in 1..Len(texts[i]) :
                \/ MaximalRun(texts[i], p, 14) /\ Run(texts[i], p, 14) = Spell14(ts_result)
                \/ /\ MaximalRun(texts[i], p, 8) /\ Run(texts[i], p, 8) = Spell8(ts_result)
                   /\ SubSeq(ts_result, 4, 6) = <<0, 0, 0>>
                \/ /\ MaximalRun(texts[i], p, 4) /\ Run(texts[i], p, 4) = ToDigits(ts_result[1], 4)
                   /\ SubSeq(ts_result, 2, 6) = <<1, 1, 0, 0, 0>>
       /\ (\A i \in 1..Len(texts) : Fit14(texts[i]) = {} /\ Fit8(texts[i]) = {} /\ Fit4(texts[i]) = {})
             => ts_result = None

\* a 9-digit run that ends in a date yields no timestamp
C2_Witness ==
    /\ ts_pc = "done"
    /\ texts[1] = <<"7">> \o ToDigits(20200101, 8)
    /\ \A i \in 2..Len(texts) : texts[i] = <<>>
    /\ ts_result = None

(***************************************************************************)
(* Properties of the pairing engine.  The expected output is described     *)
(* from the input rows alone: timestamps are compared in seconds, a        *)
(* group's order is given by ranks, and a group's share of B.csv is the    *)
(* rows of B.csv that carry its key.                                       *)
(***************************************************************************)
HasTs(r) == RowDtMemo[r] # None

TsRows == SelectSeq(rows, HasTs)

KeyOf(r) == subject_group_key(r.subject_id, cfg.subject_group)

KeySet == {KeyOf(TsRows[k]) : k \in 1..Len(TsRows)}

Members(key) == SelectSeq(TsRows, LAMBDA r : KeyOf(r) = key)

OutputOf(key) == SelectSeq(b_rows, LAMBDA r : KeyOf(r) = key)

\* seconds from datetime a to datetime b
SecondsBetween(a, b) == (ToOrdinal(b) - ToOrdinal(a)) * 86400 + SecondOfDay(b) - SecondOfDay(a)

GapTable ==
    [ra \in {r \in RowValues : HasTs(r)} |->
        [rb \in {r \in RowValues : HasTs(r)} |-> SecondsBetween(RowDtMemo[ra], RowDtMemo[rb])]]

GapSeconds(ra, rb) == GapTable[ra][rb]

ThresholdSeconds == cfg.min_days * 86400 + cfg.min_years * 31556952

Allowed(ra, rb) ==
    /\ cfg.same_split => ra.split = rb.split
    /\ GapSeconds(ra, rb) >= ThresholdSeconds

\* the position of member k after a stable ascending sort by timestamp
Rank(m, k) ==
    1 + Cardinality({j \in 1..Len(m) : GapSeconds(m[j], m[k]) > 0})
      + Cardinality({j \in 1..(k - 1) : GapSeconds(m[j], m[k]) = 0})

RECURSIVE SortedFrom(_, _)
SortedFrom(m, p) ==
    IF p > Len(m) THEN <<>>
    ELSE <<m[CHOOSE k \in 1..Len(m) : Rank(m, k) = p]>> \o SortedFrom(m, p + 1)

Sorted(m) == SortedFrom(m, 1)

\* the index pairs i < j of 1..n in scan order (i ascending, then j ascending)
PairsOfSize == [n \in 0..(MaxRows + 1) |->
    LET P == {q \in (1..n) \X (1..n) : q[1] < q[2]}
        Before(q, r) == q[1] < r[1] \/ (q[1] = r[1] /\ q[2] < r[2])
        Pos(q) == 1 + Cardinality({r \in P : Before(r, q)})
        RECURSIVE From(_)
        From(x) == IF x > Cardinality(P) THEN <<>>
                   ELSE <<CHOOSE q \in P : Pos(q) = x>> \o From(x + 1)
    IN From(1)]

PairsInOrder(n) == PairsOfSize[n]

QualifyingPairs(sm) == SelectSeq(PairsInOrder(Len(sm)), LAMBDA q : Allowed(sm[q[1]], sm[q[2]]))

\* the output rows for a sequence of index pairs: earlier row, then later row
RECURSIVE RowsOf(_, _)
RowsOf(sm, ps) ==
    IF ps = <<>> THEN <<>>
    ELSE <<sm[ps[1][1]], sm[ps[1][2]]>> \o RowsOf(sm, Tail(ps))

FirstN(sq, n) == SubSeq(sq, 1, IF n < Len(sq) THEN n ELSE Len(sq))

\* C5: a row without a timestamp never appears in B.csv, and B.csv is what the
\* timestamped rows alone would give.
C5_NoTimestampExcluded ==
    b_pc = "done" =>
       /\ \A k \in 1..Len(b_rows) : HasTs(b_rows[k])
       /\ b_rows = build_B(TsRows, cfg)

\* a row without a timestamp sits in a group that emits a pair
C5_Witness ==
    /\ b_pc = "done" /\ b_rows # <<>>
    /\ \E k \in 1..Len(rows) : ~HasTs(rows[k]) /\ KeyOf(rows[k]) = KeyOf(b_rows[1])

\* C6: in mode "edge" a group of at least 2 timestamped rows gives the pair
\* (earliest, latest) of its stable sort iff the split test and the gap test pass
\* and nothing otherwise; smaller groups give nothing.
C6_EdgeOnePair ==
    (b_pc = "done" /\ cfg.pairing = "edge") =>
       /\ \A key \in KeySet :
             LET sm == Sorted(Members(key))
             IN OutputOf(key) =
                   IF Len(sm) >= 2 /\ Allowed(sm[1], sm[Len(sm)])
                   THEN <<sm[1], sm[Len(sm)]>> ELSE <<>>
       /\ \A k \in 1..Len(b_rows) : KeyOf(b_rows[k]) \in KeySet

\* a group of 4 rows, with equal timestamps among them, emits its edge pair under
\* a one-year-and-a-day threshold and the same-split test
C6_Witness ==
    /\ b_pc = "done" /\ cfg.pairing = "edge" /\ cfg.min_years = 1 /\ cfg.same_split
    /\ Len(TsRows) = 4 /\ Cardinality(KeySet) = 1
    /\ Len(b_rows) = 2
    /\ \E k \in 1..3 : GapSeconds(TsRows[k], TsRows[k + 1]) = 0 /\ TsRows[k] # TsRows[k + 1]

\* C7: in mode "all" without a cap a group gives exactly its qualifying pairs
\* (i < j in the sorted group), each once, in scan order.
C7_AllPairsNoCap ==
    (b_pc = "done" /\ cfg.pairing = "all" /\ cfg.max_pairs = 0) =>
       /\ \A key \in KeySet :
             LET sm == Sorted(Members(key))
             IN OutputOf(key) = RowsOf(sm, QualifyingPairs(sm))
       /\ \A k \in 1..Len(b_rows) : KeyOf(b_rows[k]) \in KeySet

\* a group of 4 rows yields all 6 pairs
C7_Witness ==
    /\ b_pc = "done" /\ cfg.pairing = "all" /\ cfg.max_pairs = 0 /\ cfg.same_split
    /\ Len(TsRows) = 4 /\ Cardinality(KeySet) = 1
    /\ Len(b_rows) = 12

\* C8: in mode "all" with a cap c > 0 a group gives exactly the first c of its
\* qualifying pairs in scan order, so at most c pairs, whatever other groups give.
C8_CapPerGroup ==
    (b_pc = "done" /\ cfg.pairing = "all" /\ cfg.max_pairs > 0) =>
       /\ \A key \in KeySet :
             LET sm == Sorted(Members(key))
             IN /\ OutputOf(key) = RowsOf(sm, FirstN(QualifyingPairs(sm), cfg.max_pairs))
                /\ Len(OutputOf(key)) <= 2 * cfg.max_pairs
       /\ \A k \in 1..Len(b_rows) : KeyOf(b_rows[k]) \in KeySet

\* two groups each reach a cap of 1, and both emit their pair
C8_Witness ==
    /\ b_pc = "done" /\ cfg.pairing = "all" /\ cfg.max_pairs = 1
    /\ Cardinality(KeySet) = 2
    /\ \A key \in KeySet : Len(Members(key)) = 2 /\ Len(OutputOf(key)) = 2

\* the number of pairs build_B accepts, group by group
RECURSIVE AcceptedPairs(_, _, _)
AcceptedPairs(c, en, keys) ==
    IF keys = <<>> THEN 0
    ELSE Len(GroupPairs(c, SortedGroup(en, c.subject_group, Head(keys))))
            + AcceptedPairs(c, en, Tail(keys))

\* C9: B.csv holds twice as many rows as pairs were accepted, and rows 2k-1 and 2k
\* (counted from 1) are of one subject group, the earlier row first.
C9_PairsOfRows ==
    b_pc = "done" =>
       /\ Len(b_rows) % 2 = 0
       /\ Len(b_rows) = 2 * AcceptedPairs(cfg, Enrich(rows), GroupKeys(Enrich(rows), cfg.subject_group))
       /\ \A k \in 1..(Len(b_rows) \div 2) :
             /\ HasTs(b_rows[2 * k - 1]) /\ HasTs(b_rows[2 * k])
             /\ KeyOf(b_rows[2 * k - 1]) = KeyOf(b_rows[2 * k])
             /\ GapSeconds(b_rows[2 * k - 1], b_rows[2 * k]) >= 0

\* two pairs are written, the first of rows with different timestamps
C9_Witness ==
    /\ b_pc = "done" /\ Len(b_rows) >= 4
    /\ HasTs(b_rows[1]) /\ HasTs(b_rows[2])
    /\ RowDtMemo[b_rows[1]] # RowDtMemo[b_rows[2]]

(***************************************************************************)
(* Properties of the matcher and of the builders.                          *)
(***************************************************************************)
\* the score tuple of candidate k of the row in hand
ScoreOf(k) ==
    score_candidate(cands[k], cur.subject_id, cur.image_id, cur.series_id, cur.image_visit)

TupleLess(a, b) == a[1] < b[1] \/ (a[1] = b[1] /\ a[2] < b[2])

\* C3: choose_best returns the first candidate that carries the highest
\* (score, prefix length) tuple; it returns no match exactly for an empty list and
\* for a list of more than one candidate none of which scores above 0.
C3_ChooseBest ==
    idx > 0 =>
       /\ warped = None <=>
             \/ cands = <<>>
             \/ Len(cands) > 1 /\ \A k \in 1..Len(cands) : ScoreOf(k)[1] <= 0
       /\ warped # None =>
             \E k \in 1..Len(cands) :
                /\ warped = cands[k]
                /\ \A j \in 1..Len(cands) : ~TupleLess(ScoreOf(k), ScoreOf(j))
                /\ \A j \in 1..(k - 1) : TupleLess(ScoreOf(j), ScoreOf(k))

\* a lone candidate that matches nothing is still returned
C3_Witness ==
    /\ idx > 0 /\ Len(cands) = 1
    /\ cur.subject_id # <<>> /\ cur.image_id # <<>>
    /\ ScoreOf(1) = <<0, 0>>
    /\ warped = cands[1]

\* the subject id and the raw image id build_dataset resolves for a manifest row
ResolvedSubj(m, a) == IF m.subj # <<>> THEN m.subj ELSE IF a = None THEN <<>> ELSE a.subj

ResolvedUid(m, a) == IF m.uid # <<>> THEN m.uid ELSE IF a = None THEN <<>> ELSE a.uid

\* the raw image id is nothing but an optional leading I or i
BlankUid(u) == u \in { <<>>, <<"I">>, <<"i">> }

\* C4 as stated: the default builder emits every processed source row, so the
\* output has as many rows as were processed; the manifest-merge builder leaves
\* a manifest row out exactly when its subject id and its image id are both empty.
C4_EveryRowEmitted ==
    /\ [](prog = "convert" => Len(out_rows) = idx)
    /\ [][m_n' = m_n + 1 =>
            ((m_out' = m_out) <=> (mr'.subj = <<>> /\ mr'.uid = <<>>))]_vars

\* C4: the default builder emits a processed source row exactly when choose_best
\* returned a match, and counts it as skipped otherwise, so the output rows are
\* the matched rows, each with a non-empty image and latent path; the
\* manifest-merge builder leaves a manifest row out exactly when the subject id
\* it resolves (the manifest's, else the ADNI row's) is empty and the image id it
\* resolves is empty once one leading I or i is removed.
C4_RowsEmitted ==
    /\ [](prog = "convert" =>
            /\ Len(out_rows) = matched
            /\ idx = matched + skipped
            /\ \A k \in 1..Len(out_rows) :
                  out_rows[k].image_path # <<>> /\ out_rows[k].latent_path # <<>>)
    /\ [][idx' = idx + 1 =>
            IF warped' = None
            THEN out_rows' = out_rows /\ skipped' = skipped + 1
            ELSE /\ Len(out_rows') = Len(out_rows) + 1
                 /\ SubSeq(out_rows', 1, Len(out_rows)) = out_rows
                 /\ out_rows'[Len(out_rows')].subject_id = cur'.subject_id
                 /\ out_rows'[Len(out_rows')].image_path = as_posix(warped')
                 /\ skipped' = skipped]_vars
    /\ [][m_n' = m_n + 1 =>
            IF ResolvedSubj(mr', ad') = <<>> /\ BlankUid(ResolvedUid(mr', ad'))
            THEN m_out' = m_out
            ELSE /\ Len(m_out') = Len(m_out) + 1
                 /\ SubSeq(m_out', 1, Len(m_out)) = m_out
                 /\ m_out'[Len(m_out')].subject_id = ResolvedSubj(mr', ad')]_vars

\* the default builder has skipped a row and emitted none, and the manifest-merge
\* builder has left out a row whose image id is a lone "I"
C4_Witness ==
    \/ prog = "convert" /\ idx > 0 /\ skipped > 0 /\ out_rows = <<>> /\ cands # <<>>
    \/ prog = "merge" /\ m_n > 0 /\ m_out = <<>> /\ mr.uid = <<"I">> /\ ad # None

(***************************************************************************)
(* Properties of the sex normalization.                                    *)
(***************************************************************************)
MaleWords == { <<"M">>, <<"M", "A", "L", "E">> }

FemaleWords == { <<"F">>, <<"F", "E", "M", "A", "L", "E">> }

\* the argument without its surrounding white space, in capitals
Canon == Upper(Strip(v))

\* C10 as stated: every input maps to one of "M", "F" and "", M/MALE giving "M",
\* F/FEMALE giving "F" and every other input "", and a second application
\* changes nothing.
C10_OneOfThree ==
    /\ s_pc \in {"once", "twice"} =>
          /\ sex_raw \in { <<"M">>, <<"F">>, <<>> }
          /\ Canon \in MaleWords => sex_raw = <<"M">>
          /\ Canon \in FemaleWords => sex_raw = <<"F">>
          /\ Canon \notin MaleWords \cup FemaleWords => sex_raw = <<>>
    /\ s_pc = "twice" => sex_again = sex_raw

\* C10: normalize_sex gives "M" for M/MALE and "F" for F/FEMALE (white space
\* around the input and its case ignored) and hands every other input back
\* stripped and in capitals; a second application changes nothing; the code
\* build_dataset stores is "0" for "M", "1" for "F" and empty for all else.
C10_Idempotent ==
    /\ s_pc \in {"once", "twice"} =>
          /\ Canon \in MaleWords => sex_raw = <<"M">> /\ sex = <<"0">>
          /\ Canon \in FemaleWords => sex_raw = <<"F">> /\ sex = <<"1">>
          /\ Canon \notin MaleWords \cup FemaleWords => sex_raw = Canon /\ sex = <<>>
    /\ s_pc = "twice" => sex_again = sex_raw

\* an input that is neither word has been normalized twice: it came back
\* changed, not empty, and the second application left it alone
C10_Witness ==
    /\ s_pc = "twice"
    /\ sex_raw \notin { <<"M">>, <<"F">>, <<>> }
    /\ sex_raw # v
    /\ sex_again = sex_raw

(***************************************************************************)
(* Properties of the batch DICOM conversion.                               *)
(***************************************************************************)
\* C11: the conversion utility is looked for before the walk starts, and when it
\* cannot be located the batch aborts: no folder is visited, convert_dicom_folder
\* is never called and no conversion subprocess is started.
C11_CheckedUpFront ==
    prog = "dicom" =>
       /\ (walk_i > 0 \/ calls # <<>> \/ started > 0 \/ d_pc \in {"walk", "done"}) => found
       /\ tool = "missing" =>
             /\ d_pc \in {"tree", "aborted"}
             /\ walk_i = 0 /\ calls = <<>> /\ started = 0

\* the utility is missing, a folder with a .dcm file waits, and the batch has aborted
C11_Witness ==
    /\ prog = "dicom" /\ tool = "missing" /\ d_pc = "aborted"
    /\ \E k \in 1..Len(tree) : HasDcm(tree[k])
    /\ calls = <<>>

\* one term of the score: pts when the identifier is not empty and hit holds
Term(id, hit, pts) == IF id # <<>> /\ hit THEN pts ELSE 0

\* the segments of candidate k and its path string
Segments(k) == {cands[k][q] : q \in 1..Len(cands[k])}

PathString(k) == as_posix(cands[k])

\* the score the six terms add up to for candidate k of the row in hand
TermSum(k) ==
    Term(cur.subject_id, cur.subject_id \in Segments(k), 100)
  + Term(cur.image_id, cur.image_id \in Segments(k), 80)
  + Term(cur.image_id, \E q \in Segments(k) : StartsWith(q, cur.image_id), 60)
  + Term(cur.image_id, Contains(PathString(k), cur.image_id), 40)
  + Term(cur.series_id, Contains(PathString(k), cur.series_id), 10)
  + Term(cur.image_visit, Contains(PathString(k), cur.image_visit), 10)

\* the two candidates of the example
ExampleCands ==
    << << <<"/">>, <<"A">>, <<"1", "2", "3">>, <<"i", "m", "g", ".", "n", "i", "i", ".", "g", "z">> >>,
       << <<"/">>, <<"A">>, <<"9", "9", "9">>, <<"i", "m", "g", ".", "n", "i", "i", ".", "g", "z">> >> >>

\* C12: the primary score of a candidate is the sum of 100 (a segment equals the
\* subject id), 80 (a segment equals the image id), 60 (a segment starts with the
\* image id), 40 (the image id occurs in the path string), 10 (the series id
\* occurs in it) and 10 (the visit token occurs in it), each counted once and
\* nothing for an empty identifier; the tie-break value is the length of the
\* image id when the starts-with term applies and 0 otherwise; of the candidates
\* /A/123/img.nii.gz and /A/999/img.nii.gz subject id 123 selects the first.
C12_ScoreTerms ==
    /\ idx > 0 =>
          \A k \in 1..Len(cands) :
             /\ ScoreOf(k)[1] = TermSum(k)
             /\ ScoreOf(k)[2] =
                   IF cur.image_id # <<>> /\ \E q \in Segments(k) : StartsWith(q, cur.image_id)
                   THEN Len(cur.image_id) ELSE 0
    /\ choose_best(ExampleCands, <<"1", "2", "3">>, <<>>, <<>>, <<>>) = ExampleCands[1]

\* a candidate has a segment equal to both the subject id and the image id, while
\* the series id of the row occurs nowhere in its path
C12_Witness ==
    /\ idx > 0
    /\ \E k \in 1..Len(cands) :
          /\ cur.image_id \in Segments(k) /\ cur.subject_id = cur.image_id
          /\ cur.series_id # <<>> /\ ~Contains(PathString(k), cur.series_id)
          /\ ScoreOf(k)[1] >= 280 /\ ScoreOf(k)[2] = 3

\* the artifacts indexed under the directory named exactly the subject id
UnderSubject ==
    IF cur.subject_id # <<>> /\ \E i \in 1..Len(subj2warped) : subj2warped[i].dname = cur.subject_id
    THEN subj2warped[CHOOSE i \in 1..Len(subj2warped) : subj2warped[i].dname = cur.subject_id].warped
    ELSE <<>>

\* the artifacts of directories i..end of the index whose name starts with or
\* contains the image id, in index order
RECURSIVE UnderImageFrom(_)
UnderImageFrom(i) ==
    IF i > Len(subj2warped) THEN <<>>
    ELSE (IF StartsWith(subj2warped[i].dname, cur.image_id)
             \/ Contains(subj2warped[i].dname, cur.image_id)
          THEN subj2warped[i].warped ELSE <<>>) \o UnderImageFrom(i + 1)

UnderImage == IF cur.image_id # <<>> THEN UnderImageFrom(1) ELSE <<>>

RECURSIVE AllIndexedFrom(_)
AllIndexedFrom(i) ==
    IF i > Len(subj2warped) THEN <<>> ELSE subj2warped[i].warped \o AllIndexedFrom(i + 1)

\* C13: the candidate pool of a row is the artifacts indexed under the
\* directory named exactly the subject id, followed, when an image id is given,
\* by the artifacts of every directory whose name starts with or contains the
\* image id, duplicates kept; the pool of all indexed artifacts is used exactly
\* when these two steps gave no candidate; a row's lookup leaves the index as
\* it was.
C13_CandidatePool ==
    /\ [](idx > 0 =>
            /\ UnderSubject \o UnderImage # <<>> => cands = UnderSubject \o UnderImage
            /\ UnderSubject \o UnderImage = <<>> => cands = AllIndexedFrom(1))
    /\ [][idx' = idx + 1 => subj2warped' = subj2warped]_vars

\* the subject directory also matches the image id, so its artifacts are in the
\* pool twice
C13_Witness ==
    /\ idx > 0 /\ UnderSubject # <<>>
    /\ cands = UnderSubject \o UnderSubject

(***************************************************************************)
(* Properties of the column lookup.                                        *)
(***************************************************************************)
\* the canonical headers pattern i matches, by position in canon
MatchedBy(i) == {j \in 1..Len(canon) : Search(patterns[i], canon[j].k)}

FullyMatchedBy(i) == {j \in 1..Len(canon) : Fullmatch(patterns[i], canon[j].k)}

MatchingPatterns == {i \in 1..Len(patterns) : MatchedBy(i) # {}}

\* C14: find returns the column of the first pattern, in priority order, that
\* matches a canonical header, and within that pattern a header matched in
\* full is preferred over one matched as a substring, whatever the order of the
\* headers; of two headers with one canonical name the first seen is kept; no
\* column is returned when no pattern matches.
C14_ExactPreferred ==
    /\ f_pc \in {"finder", "found"} =>
          \A j \in 1..Len(canon) :
             canon[j].orig = headers[Min({n \in 1..Len(headers) : CanonKey(headers[n]) = canon[j].k})]
    /\ f_pc = "found" =>
          IF MatchingPatterns = {} THEN col = None
          ELSE LET i == Min(MatchingPatterns)
               IN /\ \E j \in MatchedBy(i) : col = canon[j].orig
                  /\ FullyMatchedBy(i) # {} => \E j \in FullyMatchedBy(i) : col = canon[j].orig

(***************************************************************************)
(* Properties of the image identifiers of the manifest-merge builder.      *)
(***************************************************************************)
\* the ADNI rows whose image id, rid of a leading I or i, is u
AdniWithUid(u) == {k \in 1..Len(adni_rows) : StripI(adni_rows[k].uid) = u}

\* C15: an image id has its leading I or i removed before it is compared and
\* before it is stored: a manifest row whose stripped image id is that of an ADNI
\* row finds that row, the path is looked up under the stripped id, and the
\* image_uid of the output row is the stripped id.
C15_StrippedBothSides ==
    (prog = "merge" /\ m_n > 0) =>
       /\ (StripI(mr.uid) # <<>> /\ AdniWithUid(StripI(mr.uid)) # {}) =>
             ad = adni_rows[Max(AdniWithUid(StripI(mr.uid)))]
       /\ ~(ResolvedSubj(mr, ad) = <<>> /\ BlankUid(ResolvedUid(mr, ad))) =>
             /\ m_out # <<>>
             /\ m_out[Len(m_out)].image_uid = StripI(ResolvedUid(mr, ad))
             /\ m_out[Len(m_out)].image_path =
                   IF StripI(ResolvedUid(mr, ad)) \in DOMAIN path_map
                   THEN path_map[StripI(ResolvedUid(mr, ad))] ELSE <<>>

(***************************************************************************)
(* Properties of the grouping key.                                         *)
(***************************************************************************)
GroupModes == {"exact", "first_token", "regex"}

\* the pairs of B.csv, as the positions of their first rows
PairStarts == {2 * k - 1 : k \in 1..(Len(b_rows) \div 2)}

\* the timestamped rows without a subject id
NoSubjectRows == SelectSeq(TsRows, LAMBDA r : r.subject_id = <<>>)

\* a subject id the chosen mode gives the key "" although it is not empty
UnderscoreLed(sid) == cfg.subject_group = "first_token" /\ sid # <<>> /\ Head(sid) = "_"

\* C16: a timestamped row without a subject id gets the key "" in every
\* grouping mode, so all such rows are one group and two of them can be written
\* as a pair; a row with a subject id is never paired with them, unless its
\* id starts with an underscore and the mode is first_token: in mode exact a
\* non-empty id never gives the key "", in mode first_token only then.
C16_EmptyKeyGroup ==
    (prog = "keys" /\ b_pc = "done") =>
       /\ \A k \in 1..Len(rows), mode \in GroupModes :
             rows[k].subject_id = <<>> => subject_group_key(rows[k].subject_id, mode) = <<>>
       /\ \A k \in 1..Len(rows) :
             rows[k].subject_id # <<>> =>
                /\ subject_group_key(rows[k].subject_id, "exact") # <<>>
                /\ subject_group_key(rows[k].subject_id, "first_token") = <<>>
                      <=> Head(rows[k].subject_id) = "_"
       /\ \A p \in PairStarts :
             (b_rows[p].subject_id = <<>> \/ b_rows[p + 1].subject_id = <<>>) =>
                \A q \in {p, p + 1} :
                   b_rows[q].subject_id = <<>> \/ UnderscoreLed(b_rows[q].subject_id)
       /\ (cfg.pairing = "edge" /\ ~cfg.same_split /\ cfg.min_days = 0 /\ cfg.min_years = 0
             /\ cfg.subject_group = "exact" /\ Len(NoSubjectRows) >= 2) =>
             Cardinality({p \in PairStarts :
                            b_rows[p].subject_id = <<>> /\ b_rows[p + 1].subject_id = <<>>}) = 1

\* three timestamped rows without a subject id are in the input, together with a
\* row whose id starts with an underscore, and two rows without a subject id
\* are written as a pair
C16_Witness ==
    /\ prog = "keys" /\ b_pc = "done"
    /\ Len(NoSubjectRows) >= 3
    /\ \E k \in 1..Len(rows) : rows[k].subject_id # <<>> /\ Head(rows[k].subject_id) = "_"
    /\ \E p \in PairStarts : b_rows[p].subject_id = <<>> /\ b_rows[p + 1].subject_id = <<>>

====
